---------------------------- MODULE Spec2Model ----------------------------
(***************************************************************************)
(* State-machine model of the RPCA decomposition engine of Qolmat:         *)
(*   RPCANoisy.decompose_rpca_signal / decompose_rpca_L1 / _L2             *)
(*       (src/qolmat/imputations/rpca/rpca_noisy.py)                       *)
(*   RPCAPCP.decompose_rpca / decompose_on_basis /                         *)
(*       _check_cost_function_minimized                                    *)
(*       (src/qolmat/imputations/rpca/rpca_pcp.py)                         *)
(*                                                                         *)
(* Matrices are sequences of rows over the integers.  Everything the code  *)
(* computes with +, -, @, np.where, soft-thresholding and norms is         *)
(* computed here exactly.  The results of the dense kernels the code       *)
(* calls (scipy.linalg.solve, the SVD behind svd_thresholding) are real    *)
(* matrices fixed by floating-point arithmetic; the model lets each such   *)
(* result range over every matrix of the right shape with entries in Vals. *)
(***************************************************************************)
EXTENDS Integers, Sequences, FiniteSets, TLC

\* Largest iteration cap (max_iter / max_iterations) given to a solver.
MaxIter == 2

\* Entries a kernel result (solve, SVD factors) and an observation may take.
Vals == {0, 1}

---------------------------------------------------------------------------
(* Dense matrices                                                          *)

Abs(x) == IF x < 0 THEN -x ELSE x

Max2(a, b) == IF a >= b THEN a ELSE b

Min2(a, b) == IF a <= b THEN a ELSE b

NRows(A) == Len(A)

NCols(A) == Len(A[1])

Shape(A) == <<NRows(A), NCols(A)>>

Mat(m, n, S) == [1..m -> [1..n -> S]]

\* np.zeros / np.ones / np.full_like(D, 0)
Fill(m, n, c) == [i \in 1..m |-> [j \in 1..n |-> c]]

MatSub(A, B) == [i \in 1..NRows(A) |-> [j \in 1..NCols(A) |-> A[i][j] - B[i][j]]]

MatAdd(A, B) == [i \in 1..NRows(A) |-> [j \in 1..NCols(A) |-> A[i][j] + B[i][j]]]

Scale(c, A) == [i \in 1..NRows(A) |-> [j \in 1..NCols(A) |-> c * A[i][j]]]

\* Exact entrywise quotient Y / mu (the model keeps Y a multiple of mu).
DivBy(A, c) == [i \in 1..NRows(A) |-> [j \in 1..NCols(A) |-> A[i][j] \div c]]

Transpose(A) == [j \in 1..NCols(A) |-> [i \in 1..NRows(A) |-> A[i][j]]]

RECURSIVE SumTo(_, _)
SumTo(f, n) == IF n = 0 THEN 0 ELSE f[n] + SumTo(f, n - 1)

\* A @ B
MatMul(A, B) ==
    [i \in 1..NRows(A) |-> [j \in 1..NCols(B) |->
        SumTo([k \in 1..NCols(A) |-> A[i][k] * B[k][j]], NCols(A))]]

RECURSIVE MaxTo(_, _)
MaxTo(f, n) == IF n = 1 THEN f[1] ELSE Max2(f[n], MaxTo(f, n - 1))

\* np.linalg.norm(A, np.inf) of a 2-D array: the largest absolute row sum.
NormInf(A) ==
    MaxTo([i \in 1..NRows(A) |->
              SumTo([j \in 1..NCols(A) |-> Abs(A[i][j])], NCols(A))], NRows(A))

\* np.linalg.norm(A, "fro") ** 2
FroSq(A) ==
    SumTo([i \in 1..NRows(A) |->
              SumTo([j \in 1..NCols(A) |-> A[i][j] * A[i][j]], NCols(A))], NRows(A))

\* np.where(C, A, B)
Where(C, A, B) ==
    [i \in 1..NRows(A) |-> [j \in 1..NCols(A) |-> IF C[i][j] THEN A[i][j] ELSE B[i][j]]]

\* ~Omega
NotMask(C) == [i \in 1..NRows(C) |-> [j \in 1..NCols(C) |-> ~C[i][j]]]

\* np.any(C)
AnyTrue(C) == \E i \in 1..NRows(C) : \E j \in 1..NCols(C) : C[i][j]

\* rpca_utils.soft_thresholding: sign(x) * max(|x| - t, 0), entrywise.
Shrink(x, t) == IF x > t THEN x - t ELSE IF x < -t THEN x + t ELSE 0

SoftThresholding(X, t) ==
    [i \in 1..NRows(X) |-> [j \in 1..NCols(X) |-> Shrink(X[i][j], t)]]


---------------------------------------------------------------------------
(* Arrays that may hold NaN: the values (0 where missing) and the NaN mask *)

Arr(v, isnan) == [val |-> v, nan |-> isnan]

\* ~np.isnan(D_init)
NotNan(arr) == NotMask(arr.nan)

\* utils_np._prepare_data(X, period) with period = None: a 2-D input is
\* passed through unchanged.
PrepareData(arr) == arr

\* utils_np.get_shape_original(M, X.shape): the inverse of the packing; for a
\* 2-D original the matrix is returned as it is.
GetShapeOriginal(M, shape) == M

\* Value taken by a missing cell of one row: the nearest finite neighbour
\* along the row, 0 when the whole row is missing (no row of the model is
\* long enough to have two finite neighbours around one missing cell).
RECURSIVE NearestFinite(_, _, _, _)
NearestFinite(row, isnan, j, d) ==
    IF d >= Len(row) THEN 0
    ELSE IF j - d >= 1 /\ ~isnan[j - d] THEN row[j - d]
    ELSE IF j + d <= Len(row) /\ ~isnan[j + d] THEN row[j + d]
    ELSE NearestFinite(row, isnan, j, d + 1)

\* utils.linear_interpolation / the transposed utils_np._linear_interpolation
\* of the facade: fills every NaN along the time axis; the result has none.
LinearInterpolation(arr) ==
    Arr([i \in 1..NRows(arr.val) |-> [j \in 1..NCols(arr.val) |->
            IF arr.nan[i][j] THEN NearestFinite(arr.val[i], arr.nan[i], j, 1)
            ELSE arr.val[i][j]]],
        [i \in 1..NRows(arr.val) |-> [j \in 1..NCols(arr.val) |-> FALSE]])

---------------------------------------------------------------------------
(* Inputs                                                                  *)

\* One-row observation arrays, every cell 0, 1 or NaN.
Signals12 ==
    { Arr(<<<<IF p THEN 0 ELSE a, IF q THEN 0 ELSE b>>>>, <<<<p, q>>>>) :
        <<a, b, p, q>> \in Vals \X Vals \X BOOLEAN \X BOOLEAN }

\* An observation array with two rows and three columns.
Signal23 == Arr(<<<<1, 0, 1>>, <<0, 1, 0>>>>,
                <<<<FALSE, FALSE, FALSE>>, <<FALSE, TRUE, FALSE>>>>)

\* The bases Q given to decompose_on_basis, of shape (rank, n_cols) with
\* rank = 1 (M = L @ Q has the columns of Q).
Bases == {<<<<1, 1>>>>, <<<<1, 0>>>>, <<<<1, 1, 1>>>>}

\* Two-row observation arrays for decompose_on_basis.
Signals22 ==
    { Arr(<<<<1, 0>>, <<0, 1>>>>, <<<<FALSE, FALSE>>, <<FALSE, FALSE>>>>),
      Arr(<<<<1, 1>>, <<0, 0>>>>, <<<<FALSE, FALSE>>, <<TRUE, FALSE>>>>),
      Arr(<<<<0, 1>>, <<1, 0>>>>, <<<<TRUE, FALSE>>, <<FALSE, TRUE>>>>) }

\* (list_periods, list_etas) given to RPCANoisy.__init__.
PeriodEtaPairs ==
    { <<<<>>, <<>>>>, <<<<1>>, <<1>>>>, <<<<2>>, <<1>>>>, <<<<0>>, <<1>>>>,
      <<<<-1>>, <<1>>>>, <<<<1>>, <<1, 1>>>>, <<<<1>>, <<>>>> }

Norms == {"L1", "L2", "Linf"}

Tols == {0, 1}

\* RPCANoisy.__init__: the fields of the object; rank, tau and lam are given.
NoisyObjects ==
    { [cls |-> "RPCANoisy", norm |-> nm, list_periods |-> pe[1], list_etas |-> pe[2],
       max_iter |-> mi, tol |-> t, lam |-> 1, tau |-> 1, rank |-> 1] :
        <<nm, pe, mi, t>> \in Norms \X PeriodEtaPairs \X (1..MaxIter) \X Tols }

\* RPCAPCP.__init__: mu and lam are given.
PCPObjects ==
    { [cls |-> "RPCAPCP", mu |-> ml[1], lam |-> ml[2], max_iterations |-> mi,
       tol |-> t, verbose |-> vb] :
        <<ml, mi, t, vb>> \in {<<1, 1>>, <<2, 1>>, <<2, 0>>} \X (1..MaxIter) \X Tols \X BOOLEAN }

\* The calls: the method, the object it is called on, its arguments.
NoisyCalls ==
    { [fn |-> "decompose_rpca_signal", self |-> o, X |-> x] :
        <<o, x>> \in NoisyObjects \X {x \in Signals12 : x.nan[1][1] \/ x.val[1][1] = 1} }

PCPCalls ==
    { [fn |-> "decompose_rpca", self |-> o, D |-> d, Omega |-> NotNan(d)] :
        <<o, d>> \in PCPObjects \X Signals12 }

BasisCalls ==
    { [fn |-> "decompose_on_basis", self |-> c[1], D |-> c[2], Omega |-> NotNan(c[2]),
       Q |-> c[3]] :
        c \in { t \in PCPObjects
                        \X (Signals22 \cup {Signal23, Arr(<<<<1, 0>>>>, <<<<FALSE, TRUE>>>>)})
                        \X Bases :
                   NCols(t[3]) = NCols(t[2].val) } }

---------------------------------------------------------------------------
(* State                                                                   *)

VARIABLES
    call,       \* the method called, its object and its arguments
    pc,         \* "call", "L1", "L2", "pcp", "basis", "returned", "raised"
    D,          \* observations after the warm start (an Arr)
    Omega,      \* mask of the observed entries
    X,          \* Noisy: the working iterate
    M,          \* PCP: the low-rank iterate; Noisy: the returned low-rank matrix
    A,          \* anomalies
    L, Q,       \* factors
    Y,          \* multiplier of the constraint
    R,          \* Noisy L1: auxiliary residuals, one per period
    mu,         \* penalty
    iteration,  \* number of sweeps completed
    tol,        \* convergence witness of the last sweep (PCP: error)
    broke,      \* the last sweep left the loop through break
    ret,        \* the tuple the solver returned
    out,        \* the tuple the facade returned
    exc,        \* the exception raised
    warned      \* warnings.warn was called by the cost check

vars == <<call, pc, D, Omega, X, M, A, L, Q, Y, R, mu, iteration, tol, broke,
          ret, out, exc, warned>>

locals == <<D, Omega, X, M, A, L, Q, Y, R, mu, iteration, tol, broke>>

None == <<>>

Init ==
    /\ call \in NoisyCalls \cup PCPCalls \cup BasisCalls
    /\ pc = "call"
    /\ D = None /\ Omega = None /\ X = None /\ M = None /\ A = None
    /\ L = None /\ Q = None /\ Y = None /\ R = None
    /\ mu = 0 /\ iteration = 0 /\ tol = None /\ broke = FALSE
    /\ ret = None /\ out = None /\ exc = "" /\ warned = FALSE

\* One component of a returned tuple.
Ndarray(name, v) == [name |-> name, kind |-> "ndarray", val |-> v]

---------------------------------------------------------------------------
(* RPCANoisy                                                               *)

\* Results a call of scipy.linalg.solve(...).T of shape (m, n) may have.
SolveResults(m, n) == Mat(m, n, Vals)

\* scipy.linalg.solve(a, b).T whose right-hand side b is a product with the
\* factor F and whose matrix a = tau * Ir + mu * (F.T @ F) is invertible:
\* with F = 0 the right-hand side is zero, and so is the solution.
SolveAgainst(F, m, n) ==
    IF F = Fill(NRows(F), NCols(F), 0) THEN {Fill(m, n, 0)} ELSE SolveResults(m, n)

\* Mutant of FactorSolves: the solve for Q reads the L of the previous sweep.
FactorSolvesStale(l, q) ==
    { lq \in SolveAgainst(q, NRows(l), NCols(l)) \X SolveResults(NRows(q), NCols(q)) :
        lq[2] \in SolveAgainst(l, NRows(q), NCols(q)) }

\* The two solves for the factors (lines 159-167 and 280-288): L from
\* (mu * X + Y) @ Q with the Q of the previous sweep, then Q from
\* (mu * X.T + Y.T) @ L with the L just computed.
FactorSolves(l, q) ==
    { lq \in SolveAgainst(q, NRows(l), NCols(l)) \X SolveResults(NRows(q), NCols(q)) :
        lq[2] \in SolveAgainst(lq[1], NRows(q), NCols(q)) }

\* mu = 1e-6 is kept as the number k of multiplications by rho = 1.1 it has
\* gone through: mu = 1e-6 * 1.1^k.  mu_bar = mu * 1e10 is reached at the
\* first k with 1.1^k >= 1e10.
MuBarSteps == 242

\* mu = min(mu * rho, mu_bar)
MuNext(k) == Min2(k + 1, MuBarSteps)

\* Y is a real matrix: the model keeps its initial value and the last term
\* mu * (X - L @ Q.T) added to it, with the mu that term was scaled by.
NoisyY(base) == [base |-> base, last |-> None]

\* Y += mu * (X - L @ Q.T)
NoisyYUpdate(y, k, Xn, Ln, Qn) ==
    [base |-> y.base, last |-> [mu |-> k, d |-> MatSub(Xn, MatMul(Ln, Transpose(Qn)))]]

\* Mutant of PeriodsValid: the comparison lets period = n_columns through.
PeriodsValidInclusive(list_periods, n_columns) ==
    \A i \in 1..Len(list_periods) : list_periods[i] <= n_columns

\* The facade's validation of list_periods against the number of columns.
PeriodsValid(list_periods, n_columns) ==
    \A i \in 1..Len(list_periods) : list_periods[i] < n_columns

\* self.list_etas[index] is defined for every index of list_periods.
EtasIndexable(list_periods, list_etas) == Len(list_etas) >= Len(list_periods)

\* (mu * R[index] - Y_[index]) @ H[index].T (line 145) and X @ H[index].T
\* (line 171) multiply by the same H[index].T: numpy accepts both only when
\* R[index], of shape (m, n - period), has as many columns as X.
TemporalProductsDefined(r, x) == \A i \in 1..Len(r) : NCols(r[i]) = NCols(x)

\* Lines 391-399 of the facade: D_init, Omega, D_proj.
FacadeOmega(x) == NotNan(PrepareData(x))

FacadeDproj(x) == LinearInterpolation(PrepareData(x))

IsNoisy == pc = "call" /\ call.fn = "decompose_rpca_signal"

\* A period >= n_columns: ValueError, raised before a solver is entered.
SignalInvalidPeriod ==
    /\ IsNoisy
    /\ ~PeriodsValid(call.self.list_periods, NCols(FacadeDproj(call.X).val))
    /\ D' = FacadeDproj(call.X)
    /\ Omega' = FacadeOmega(call.X)
    /\ pc' = "raised"
    /\ exc' = "ValueError"
    /\ UNCHANGED <<call, X, M, A, L, Q, Y, R, mu, iteration, tol, broke, ret, out, warned>>

\* norm is neither "L1" nor "L2": no branch assigns M, and line 423 reads it.
SignalNoSolver ==
    /\ IsNoisy
    /\ PeriodsValid(call.self.list_periods, NCols(FacadeDproj(call.X).val))
    /\ call.self.norm \notin {"L1", "L2"}
    /\ D' = FacadeDproj(call.X)
    /\ Omega' = FacadeOmega(call.X)
    /\ pc' = "raised"
    /\ exc' = "UnboundLocalError"
    /\ UNCHANGED <<call, X, M, A, L, Q, Y, R, mu, iteration, tol, broke, ret, out, warned>>

\* The solver is entered and its set-up reads self.list_etas[index] past the
\* end of list_etas (line 129 in L1, line 251 in L2).
SignalEtasIndexError ==
    /\ IsNoisy
    /\ PeriodsValid(call.self.list_periods, NCols(FacadeDproj(call.X).val))
    /\ call.self.norm \in {"L1", "L2"}
    /\ ~EtasIndexable(call.self.list_periods, call.self.list_etas)
    /\ D' = FacadeDproj(call.X)
    /\ Omega' = FacadeOmega(call.X)
    /\ pc' = "raised"
    /\ exc' = "IndexError"
    /\ UNCHANGED <<call, X, M, A, L, Q, Y, R, mu, iteration, tol, broke, ret, out, warned>>

\* decompose_rpca_L1 up to its loop.
L1Init(Dp, list_periods, rank) ==
    LET m == NRows(Dp.val)
        n == NCols(Dp.val)
    IN  [Y |-> NoisyY(Fill(m, n, 1)),
         X |-> Dp.val,
         A |-> Fill(m, n, 0),
         L |-> Fill(m, rank, 1),
         Q |-> Fill(n, rank, 1),
         R |-> [i \in 1..Len(list_periods) |-> Fill(m, n - list_periods[i], 1)],
         mu |-> 0]

\* decompose_rpca_L2 up to its loop.
L2Init(Dp, list_periods, rank) ==
    LET m == NRows(Dp.val)
        n == NCols(Dp.val)
    IN  [Y |-> NoisyY(Fill(m, n, 0)),
         X |-> Dp.val,
         A |-> Fill(m, n, 0),
         L |-> Fill(m, rank, 1),
         Q |-> Fill(n, rank, 1),
         R |-> None,
         mu |-> 0]

EnterSolver(init, label) ==
    /\ D' = FacadeDproj(call.X)
    /\ Omega' = FacadeOmega(call.X)
    /\ X' = init.X /\ A' = init.A /\ L' = init.L /\ Q' = init.Q
    /\ Y' = init.Y /\ R' = init.R /\ mu' = init.mu
    /\ pc' = label
    /\ UNCHANGED <<call, M, iteration, tol, broke, ret, out, exc, warned>>

SignalEnterL1 ==
    /\ IsNoisy
    /\ PeriodsValid(call.self.list_periods, NCols(FacadeDproj(call.X).val))
    /\ call.self.norm = "L1"
    /\ EtasIndexable(call.self.list_periods, call.self.list_etas)
    /\ EnterSolver(L1Init(FacadeDproj(call.X), call.self.list_periods, call.self.rank), "L1")

SignalEnterL2 ==
    /\ IsNoisy
    /\ PeriodsValid(call.self.list_periods, NCols(FacadeDproj(call.X).val))
    /\ call.self.norm = "L2"
    /\ EtasIndexable(call.self.list_periods, call.self.list_etas)
    /\ EnterSolver(L2Init(FacadeDproj(call.X), call.self.list_periods, call.self.rank), "L2")

\* max over the periods of the inf-norm increments of R, starting from -1.
RECURSIVE RIncrement(_, _, _)
RIncrement(Rn, Rtemp, k) ==
    IF k = 0 THEN -1
    ELSE Max2(RIncrement(Rn, Rtemp, k - 1), NormInf(MatSub(Rn[k], Rtemp[k])))

\* One sweep of the L1 loop (lines 137-190); Xn, Ln, Qn are the results of
\* the three solves, Rn the soft-thresholded residuals.  The multipliers Y_
\* enter only the right-hand side of the first solve and the argument of the
\* soft-thresholding that gives R, both of which range over every matrix.
L1Sweep(d, om, lam, x, a, l, q, y, r, k, Xn, Ln, Qn, Rn) ==
    LET An == IF AnyTrue(d.nan)
              THEN Where(om, SoftThresholding(MatSub(d.val, Xn), lam), MatSub(d.val, Xn))
              ELSE SoftThresholding(MatSub(d.val, Xn), lam)
        Xc == NormInf(MatSub(Xn, x))
        Ac == NormInf(MatSub(An, a))
        Lc == NormInf(MatSub(Ln, l))
        Qc == NormInf(MatSub(Qn, q))
        Rc == RIncrement(Rn, r, Len(r))
    IN  [D |-> d, Omega |-> om, X |-> Xn, A |-> An, L |-> Ln, Q |-> Qn, R |-> Rn,
         Y |-> NoisyYUpdate(y, k, Xn, Ln, Qn),
         mu |-> MuNext(k),
         tol |-> Max2(Max2(Max2(Xc, Ac), Max2(Lc, Qc)), Rc)]

\* One sweep of the L2 loop (lines 263-300).
L2Sweep(d, om, lam, x, a, l, q, y, k, Xn, Ln, Qn) ==
    LET An == IF AnyTrue(NotMask(om))
              THEN Where(om, SoftThresholding(MatSub(d.val, Xn), lam), MatSub(d.val, Xn))
              ELSE SoftThresholding(MatSub(d.val, Xn), lam)
        Xc == NormInf(MatSub(Xn, x))
        Ac == NormInf(MatSub(An, a))
        Lc == NormInf(MatSub(Ln, l))
        Qc == NormInf(MatSub(Qn, q))
    IN  [D |-> d, Omega |-> om, X |-> Xn, A |-> An, L |-> Ln, Q |-> Qn, R |-> None,
         Y |-> NoisyYUpdate(y, k, Xn, Ln, Qn),
         mu |-> MuNext(k),
         tol |-> Max2(Max2(Xc, Ac), Max2(Lc, Qc))]

\* for iteration in range(max_iter), left by break
LoopRuns(cap) == iteration < cap /\ ~broke

\* The arrays of the frame after a sweep; the sweep is counted and the loop
\* is left when the witness is below self.tol.
AfterSweep(s, limit) ==
    /\ D' = s.D /\ Omega' = s.Omega
    /\ X' = s.X /\ A' = s.A /\ L' = s.L /\ Q' = s.Q /\ R' = s.R /\ Y' = s.Y
    /\ mu' = s.mu /\ tol' = s.tol
    /\ iteration' = iteration + 1
    /\ broke' = (s.tol < limit)

\* The R that one L1 sweep may produce: one matrix per period.
RResults(r) ==
    IF Len(r) = 0 THEN {<<>>}
    ELSE {<<r1>> : r1 \in SolveResults(NRows(r[1]), NCols(r[1]))}

L1Iterate ==
    /\ pc = "L1"
    /\ LoopRuns(call.self.max_iter)
    /\ TemporalProductsDefined(R, X)
    /\ \E Xn \in SolveResults(NRows(X), NCols(X)) :
       \E lq \in FactorSolves(L, Q) :
       \E Rn \in RResults(R) :
          AfterSweep(L1Sweep(D, Omega, call.self.lam, X, A, L, Q, Y, R, mu,
                             Xn, lq[1], lq[2], Rn),
                     call.self.tol)
    /\ UNCHANGED <<call, pc, M, ret, out, exc, warned>>

\* The first sweep multiplies R[index] and X by the same H[index].T: with
\* period # 0 numpy raises ValueError at one of the two products.
L1IterateShapeError ==
    /\ pc = "L1"
    /\ LoopRuns(call.self.max_iter)
    /\ ~TemporalProductsDefined(R, X)
    /\ pc' = "raised"
    /\ exc' = "ValueError"
    /\ UNCHANGED <<call, locals, ret, out, warned>>

L2Iterate ==
    /\ pc = "L2"
    /\ LoopRuns(call.self.max_iter)
    /\ \E Xn \in SolveResults(NRows(X), NCols(X)) :
       \E lq \in FactorSolves(L, Q) :
          AfterSweep(L2Sweep(D, Omega, call.self.lam, X, A, L, Q, Y, mu, Xn, lq[1], lq[2]),
                     call.self.tol)
    /\ UNCHANGED <<call, pc, M, ret, out, exc, warned>>

\* Lines 194-197: what decompose_rpca_L1 returns.
L1Result(x, a, l, q) == [M |-> x, A |-> a, U |-> l, V |-> q]

\* Lines 334-340: what decompose_rpca_L2 returns.
L2Result(x, a, l, q) ==
    LET Xp == MatMul(l, Transpose(q))
    IN  [M |-> Xp, A |-> a, U |-> l, V |-> q]

\* The solver returns to the facade, which unpacks M and A and returns them.
NoisyReturn(res) ==
    /\ ~LoopRuns(call.self.max_iter)
    /\ M' = res.M
    /\ ret' = <<Ndarray("M", res.M), Ndarray("A", res.A),
                Ndarray("U", res.U), Ndarray("V", res.V)>>
    /\ out' = <<Ndarray("M_final", GetShapeOriginal(res.M, Shape(call.X.val))),
                Ndarray("A_final", GetShapeOriginal(res.A, Shape(call.X.val)))>>
    /\ pc' = "returned"
    /\ UNCHANGED <<call, D, Omega, X, A, L, Q, Y, R, mu, iteration, tol, broke, exc, warned>>

L1Return == pc = "L1" /\ NoisyReturn(L1Result(X, A, L, Q))

L2Return == pc = "L2" /\ NoisyReturn(L2Result(X, A, L, Q))

NoisyNext ==
    \/ SignalInvalidPeriod
    \/ SignalNoSolver
    \/ SignalEtasIndexError
    \/ SignalEnterL1
    \/ SignalEnterL2
    \/ L1Iterate
    \/ L1IterateShapeError
    \/ L2Iterate
    \/ L1Return
    \/ L2Return

---------------------------------------------------------------------------
(* RPCAPCP                                                                 *)

\* Largest s with s * s <= n, for 0 <= n < 2^31.
RECURSIVE ISqrtIn(_, _, _)
ISqrtIn(n, lo, hi) ==
    IF lo = hi THEN lo
    ELSE LET mid == (lo + hi + 1) \div 2
         IN  IF mid * mid <= n THEN ISqrtIn(n, mid, hi) ELSE ISqrtIn(n, lo, mid - 1)

ISqrt(n) == ISqrtIn(n, 0, 46340)

\* The square of np.linalg.norm(W, "nuc") for a matrix with one row, one
\* column, or two rows and two columns:
\* (s1 + s2)^2 = ||W||_F^2 + 2 |det W|.
NucSq(W) ==
    IF NRows(W) = 2 /\ NCols(W) = 2
    THEN FroSq(W) + 2 * Abs(W[1][1] * W[2][2] - W[1][2] * W[2][1])
    ELSE FroSq(W)

\* round(np.linalg.norm(W, "nuc"), 4), in units of 1e-4:
\* floor(sqrt(K) + 1/2) = (floor(sqrt(4 K)) + 1) div 2 with K = NucSq * 1e8.
NucRound4(W) == (ISqrt(4 * NucSq(W) * 100000000) + 1) \div 2

\* np.sum(Omega * np.abs(anomalies))
ObservedL1(om, a) ==
    SumTo([i \in 1..NRows(a) |->
              SumTo([j \in 1..NCols(a) |-> IF om[i][j] THEN Abs(a[i][j]) ELSE 0],
                    NCols(a))], NRows(a))

\* Mutant of CostCheckWarns: every entry of the anomalies is counted.
CostCheckWarnsAllEntries(verbose, observations, low_rank, anomalies, om, lam) ==
    LET cost_start == NucRound4(observations)
        cost_end == NucRound4(low_rank)
                    + 10000 * lam * ObservedL1(Fill(NRows(om), NCols(om), TRUE), anomalies)
    IN  verbose /\ cost_start - cost_end <= -100

\* _check_cost_function_minimized: whether warnings.warn is called.  The two
\* rounded costs are in units of 1e-4, so -1e-2 is -100.
CostCheckWarns(verbose, observations, low_rank, anomalies, om, lam) ==
    LET cost_start == NucRound4(observations)
        cost_end == NucRound4(low_rank) + 10000 * lam * ObservedL1(om, anomalies)
    IN  verbose /\ cost_start - cost_end <= -100

\* rpca_utils.svd_thresholding(Z, threshold): the factors (L, Q) of the
\* thresholded SVD, of shapes (m, k) and (k, n) with k = min(m, n).
\* No singular value of Z exceeds its Frobenius norm, so the product of the
\* factors is zero when that norm is at most the threshold.
SvdThresholding(Z, threshold) ==
    LET k == Min2(NRows(Z), NCols(Z))
    IN  { lq \in Mat(NRows(Z), k, Vals) \X Mat(k, NCols(Z), Vals) :
            FroSq(Z) <= threshold * threshold
                => MatMul(lq[1], lq[2]) = Fill(NRows(Z), NCols(Z), 0) }

\* The threshold decompose_rpca gives svd_thresholding (line 191).
SvdThreshold(m_u) == m_u

\* The threshold given to soft_thresholding for the A-update (lines 193, 130).
SoftThreshold(lam, m_u) == lam * m_u

\* Mutant of MaskedAssign: the assignment lands on the complement of the mask.
MaskedAssignComplement(a, mask, b) == Where(mask, a, b)

\* A[mask] = B[mask]
MaskedAssign(a, mask, b) == Where(mask, b, a)

\* error = ||D - M - A||_F / D_norm, kept as the two squares.  With
\* D_norm = 0 the quotient is inf or nan, and no comparison with it holds.
RelError(resid, d) == [num2 |-> FroSq(resid), den2 |-> FroSq(d)]

ErrorBelow(error, limit) == error.den2 > 0 /\ error.num2 < limit * limit * error.den2

\* decompose_rpca up to its loop (lines 175-189).
PCPInit(d) ==
    LET Di == LinearInterpolation(d)
    IN  [D |-> Di,
         A |-> Fill(NRows(Di.val), NCols(Di.val), 0),
         Y |-> Fill(NRows(Di.val), NCols(Di.val), 0),
         M |-> MatSub(Di.val, Fill(NRows(Di.val), NCols(Di.val), 0))]

\* Mutant of PCPSweep: the mask is negated in place when A is patched.
PCPSweepNegatesOmega(d, om, m_u, lam, y, lq) ==
    LET Mn == MatMul(lq[1], lq[2])
        As == SoftThresholding(MatAdd(MatSub(d.val, Mn), DivBy(y, m_u)), SoftThreshold(lam, m_u))
        An == Where(NotMask(om), MatSub(d.val, Mn), As)
        resid == MatSub(MatSub(d.val, Mn), An)
    IN  [D |-> d, Omega |-> NotMask(om), L |-> lq[1], Q |-> lq[2], M |-> Mn, A |-> An,
         Y |-> MatAdd(y, Scale(m_u, resid)),
         error |-> RelError(resid, d.val)]

\* Mutant of PCPSweep: Y and the error are computed before A is patched on
\* the unobserved entries.
PCPSweepMultiplierFirst(d, om, m_u, lam, y, lq) ==
    LET Mn == MatMul(lq[1], lq[2])
        As == SoftThresholding(MatAdd(MatSub(d.val, Mn), DivBy(y, m_u)), SoftThreshold(lam, m_u))
        An == MaskedAssign(As, NotMask(om), MatSub(d.val, Mn))
        resid == MatSub(MatSub(d.val, Mn), As)
    IN  [D |-> d, Omega |-> om, L |-> lq[1], Q |-> lq[2], M |-> Mn, A |-> An,
         Y |-> MatAdd(y, Scale(m_u, resid)),
         error |-> RelError(resid, d.val)]

\* One sweep of the PCP loop (lines 191-199); lq is the result of
\* svd_thresholding.
PCPSweep(d, om, m_u, lam, y, lq) ==
    LET Mn == MatMul(lq[1], lq[2])
        As == SoftThresholding(MatAdd(MatSub(d.val, Mn), DivBy(y, m_u)), SoftThreshold(lam, m_u))
        An == MaskedAssign(As, NotMask(om), MatSub(d.val, Mn))
        resid == MatSub(MatSub(d.val, Mn), An)
    IN  [D |-> d, Omega |-> om, L |-> lq[1], Q |-> lq[2], M |-> Mn, A |-> An,
         Y |-> MatAdd(y, Scale(m_u, resid)),
         error |-> RelError(resid, d.val)]

PCPEnter ==
    /\ pc = "call"
    /\ call.fn = "decompose_rpca"
    /\ LET s == PCPInit(call.D)
       IN  /\ D' = s.D /\ A' = s.A /\ Y' = s.Y /\ M' = s.M
    /\ Omega' = call.Omega
    /\ mu' = call.self.mu
    /\ pc' = "pcp"
    /\ UNCHANGED <<call, X, L, Q, R, iteration, tol, broke, ret, out, exc, warned>>

PCPIterate ==
    /\ pc = "pcp"
    /\ LoopRuns(call.self.max_iterations)
    /\ \E lq \in SvdThresholding(MatAdd(MatSub(D.val, A), DivBy(Y, mu)), SvdThreshold(mu)) :
          LET s == PCPSweep(D, Omega, mu, call.self.lam, Y, lq)
          IN  /\ D' = s.D /\ Omega' = s.Omega
              /\ L' = s.L /\ Q' = s.Q /\ M' = s.M /\ A' = s.A /\ Y' = s.Y
              /\ tol' = s.error
              /\ iteration' = iteration + 1
              /\ broke' = ErrorBelow(s.error, call.self.tol)
    /\ UNCHANGED <<call, pc, X, R, mu, ret, out, exc, warned>>

\* Lines 204-206: the cost check, then the returned tuple.
PCPResult(m, a, l, q) == <<Ndarray("M", m), Ndarray("A", a), Ndarray("L", l), Ndarray("Q", q)>>

PCPReturn ==
    /\ pc = "pcp"
    /\ ~LoopRuns(call.self.max_iterations)
    /\ warned' = CostCheckWarns(call.self.verbose, D.val, M, A, Omega, call.self.lam)
    /\ ret' = PCPResult(M, A, L, Q)
    /\ pc' = "returned"
    /\ UNCHANGED <<call, locals, out, exc>>

\* decompose_on_basis, line 98.
BasisDegenerate(d) == NRows(d.val) = 1 \/ NCols(d.val) = 1

\* return D, np.full_like(D, 0)
BasisReturnEarly ==
    /\ pc = "call"
    /\ call.fn = "decompose_on_basis"
    /\ BasisDegenerate(call.D)
    /\ ret' = <<Ndarray("D", call.D),
                Ndarray("A", Fill(NRows(call.D.val), NCols(call.D.val), 0))>>
    /\ Omega' = call.Omega
    /\ pc' = "returned"
    /\ UNCHANGED <<call, D, X, M, A, L, Q, Y, R, mu, iteration, tol, broke, out, exc, warned>>

\* decompose_on_basis up to its loop (lines 100-112).
BasisInit(d, q) ==
    LET Di == LinearInterpolation(d)
        m == NRows(Di.val)
        n == NCols(Di.val)
    IN  [D |-> Di, A |-> Fill(m, n, 0), L |-> Fill(m, NRows(q), 0),
         M |-> Fill(m, n, 0), Y |-> Fill(m, n, 0)]

\* One sweep of the loop of decompose_on_basis (lines 130-140); Ln is the
\* result of the solve.
BasisSweep(d, om, q, m_u, lam, m, y, Ln) ==
    LET A_Omega == SoftThresholding(MatAdd(MatSub(d.val, m), DivBy(y, m_u)),
                                    SoftThreshold(lam, m_u))
        A_Omega_C == MatSub(d.val, m)
        An == Where(om, A_Omega, A_Omega_C)
        Mn == MatMul(Ln, q)
    IN  [D |-> d, Omega |-> om, A |-> An, L |-> Ln, M |-> Mn,
         Y |-> MatAdd(y, Scale(m_u, MatSub(MatSub(d.val, Mn), An)))]

\* Q @ (D - A + Y / mu) (line 136) needs Q to have as many columns as D has
\* rows; L is then of shape (n_cols, rank) and M = L @ Q of shape
\* (n_cols, n_rows), which D - M - A (line 140) accepts only for a square D,
\* D having at least two rows and two columns here.
BasisProductsDefined(d, q) == NCols(q) = NRows(d) /\ NCols(d) = NRows(d)

BasisEnter ==
    /\ pc = "call"
    /\ call.fn = "decompose_on_basis"
    /\ ~BasisDegenerate(call.D)
    /\ LET s == BasisInit(call.D, call.Q)
       IN  /\ D' = s.D /\ A' = s.A /\ L' = s.L /\ M' = s.M /\ Y' = s.Y
    /\ Omega' = call.Omega
    /\ Q' = call.Q
    /\ mu' = call.self.mu
    /\ pc' = "basis"
    /\ UNCHANGED <<call, X, R, iteration, tol, broke, ret, out, exc, warned>>

BasisIterate ==
    /\ pc = "basis"
    /\ iteration < call.self.max_iterations
    /\ BasisProductsDefined(D.val, Q)
    /\ \E Ln \in SolveResults(NCols(D.val), NRows(Q)) :
          LET s == BasisSweep(D, Omega, Q, mu, call.self.lam, M, Y, Ln)
          IN  /\ D' = s.D /\ Omega' = s.Omega
              /\ A' = s.A /\ L' = s.L /\ M' = s.M /\ Y' = s.Y
    /\ iteration' = iteration + 1
    /\ UNCHANGED <<call, pc, X, Q, R, mu, tol, broke, ret, out, exc, warned>>

\* The first sweep stops at line 136 or at line 140 with numpy's ValueError.
BasisIterateShapeError ==
    /\ pc = "basis"
    /\ iteration < call.self.max_iterations
    /\ ~BasisProductsDefined(D.val, Q)
    /\ pc' = "raised"
    /\ exc' = "ValueError"
    /\ UNCHANGED <<call, locals, ret, out, warned>>

BasisReturn ==
    /\ pc = "basis"
    /\ ~(iteration < call.self.max_iterations)
    /\ warned' = CostCheckWarns(call.self.verbose, D.val, M, A, Omega, call.self.lam)
    /\ ret' = <<Ndarray("M", M), Ndarray("A", A)>>
    /\ pc' = "returned"
    /\ UNCHANGED <<call, locals, out, exc>>

PCPNext ==
    \/ PCPEnter
    \/ PCPIterate
    \/ PCPReturn
    \/ BasisReturnEarly
    \/ BasisEnter
    \/ BasisIterate
    \/ BasisIterateShapeError
    \/ BasisReturn

---------------------------------------------------------------------------

Next == NoisyNext \/ PCPNext

Spec == Init /\ [][Next]_vars

---------------------------------------------------------------------------
(* Properties                                                              *)

IsSignalCall == call.fn = "decompose_rpca_signal"

IsPCPCall == call.fn = "decompose_rpca"

\* The iteration cap of the loop the call runs.
Cap == IF IsSignalCall THEN call.self.max_iter ELSE call.self.max_iterations

\* The witness of the last sweep is strictly below self.tol.
WitnessBelow ==
    IF IsSignalCall THEN tol < call.self.tol ELSE ErrorBelow(tol, call.self.tol)

SomePeriodTooLarge ==
    \E i \in 1..Len(call.self.list_periods) : call.self.list_periods[i] >= NCols(call.X.val)

\* C1: a Noisy facade call with a period >= n_columns never gets past the
\* validation: no sweep of a solver runs, and the call ends in ValueError.
C1_InvalidPeriodRejected ==
    (IsSignalCall /\ SomePeriodTooLarge)
        => /\ pc \in {"call", "raised"}
           /\ iteration = 0
           /\ X = None
           /\ (pc = "raised" => exc = "ValueError")

C1_Witness ==
    /\ IsSignalCall /\ SomePeriodTooLarge
    /\ pc = "raised" /\ exc = "ValueError" /\ iteration = 0

\* C2: both Noisy variants return M = L . Q^T of the returned factors.
C2_ReturnedMIsProduct ==
    (IsSignalCall /\ pc = "returned")
        => ret[1].val = MatMul(ret[3].val, Transpose(ret[4].val))

\* C3: every solver loop (PCP, Noisy L1, Noisy L2) runs at least one and at
\* most max_iter sweeps, ends by the cap or right after a sweep whose witness
\* is below tol, and raises no error (stated for calls whose parameters are
\* valid: equal list lengths, 0 < p < n, norm L1 or L2).
ValidParameters ==
    IsSignalCall
        => /\ Len(call.self.list_etas) = Len(call.self.list_periods)
           /\ \A i \in 1..Len(call.self.list_periods) :
                 0 < call.self.list_periods[i] /\ call.self.list_periods[i] < NCols(call.X.val)
           /\ call.self.norm \in {"L1", "L2"}

C3_LoopContract ==
    ((IsSignalCall \/ IsPCPCall) /\ ValidParameters)
        => /\ iteration <= Cap
           /\ (iteration >= 1 /\ pc \in {"L1", "L2", "pcp", "returned"}
                  => (broke <=> WitnessBelow))
           /\ (pc = "returned" => iteration >= 1 /\ (broke \/ iteration = Cap))
           /\ (pc = "raised" => A = None)

\* C4: the mask a solver was given is the mask it holds at every later
\* point, its return included.
EntryOmega == IF IsSignalCall THEN FacadeOmega(call.X) ELSE call.Omega

C4_OmegaUnchanged == pc # "call" => Omega = EntryOmega

C4_Witness ==
    /\ pc = "returned" /\ IsPCPCall /\ iteration >= 2
    /\ AnyTrue(Omega) /\ AnyTrue(NotMask(Omega))

\* C5: a Noisy call whose list_etas and list_periods differ in length is
\* rejected with ValueError and never iterates.
C5_MismatchedListsRejected ==
    (IsSignalCall /\ Len(call.self.list_etas) # Len(call.self.list_periods))
        => /\ pc \in {"call", "raised"}
           /\ (pc = "raised" => exc = "ValueError")

\* C6: a Noisy call whose norm is neither "L1" nor "L2" fails with the error
\* of the parameter validation (ValueError), and no solver is dispatched.
C6_UnknownNormRejected ==
    (IsSignalCall /\ call.self.norm \notin {"L1", "L2"})
        => /\ pc \in {"call", "raised"}
           /\ (pc = "raised" => exc = "ValueError")

\* C7: every period that reaches a Noisy solver satisfies 0 < p < n.
C7_PeriodsInRange ==
    pc \in {"L1", "L2"}
        => \A i \in 1..Len(call.self.list_periods) :
              0 < call.self.list_periods[i] /\ call.self.list_periods[i] < NCols(D.val)

\* A component of the returned tuple that tells the outcome of the loop: a
\* boolean, or the array of the per-iteration errors.
HasOutcomeFlag(tuple) ==
    \E i \in 1..Len(tuple) : tuple[i].kind = "bool" \/ tuple[i].name = "errors"

\* C8: a solver that reaches the cap without its witness falling below tol
\* returns a flag telling this outcome from a converged run.
C8_CapIsFlagged ==
    ((IsSignalCall \/ IsPCPCall) /\ pc = "returned" /\ iteration = Cap /\ ~broke)
        => HasOutcomeFlag(ret)

\* Costs of the PCP post-check in units of 1e-4 (none of the costs of the
\* model is within 1e-4 of a rounding boundary).
InitialCost4 == NucRound4(D.val)

FullL1(a) == ObservedL1(Fill(NRows(a), NCols(a), TRUE), a)

FinalCost4 == NucRound4(M) + 10000 * call.self.lam * FullL1(A)

FinalCostObserved4 == NucRound4(M) + 10000 * call.self.lam * ObservedL1(Omega, A)

C10_Unobserved ==
    (IsPCPCall /\ pc \in {"pcp", "returned"} /\ iteration >= 1)
        => \A i \in 1..NRows(A) : \A j \in 1..NCols(A) :
              ~Omega[i][j] => A[i][j] = D.val[i][j] - M[i][j]

C10_Sweep ==
    (pc = "pcp" /\ iteration' = iteration + 1)
        => \A i \in 1..NRows(A') : \A j \in 1..NCols(A') :
              A'[i][j] = IF Omega[i][j]
                         THEN Shrink(D.val[i][j] - M'[i][j] + (Y[i][j] \div mu),
                                     call.self.lam * mu)
                         ELSE D.val[i][j] - M'[i][j]

C10_MissingPolicy == []C10_Unobserved /\ [][C10_Sweep]_vars

C10_Witness ==
    /\ IsPCPCall /\ pc = "returned" /\ iteration >= 2
    /\ \E j \in 1..NCols(A) : ~Omega[1][j] /\ A[1][j] # 0
    /\ \E j \in 1..NCols(A) : Omega[1][j] /\ A[1][j] # 0

\* C11: in decompose_rpca_L1 reached through the facade, after every sweep
\* an unobserved entry of A is D - X and an observed entry is the
\* soft-thresholded value of D - X, as in decompose_rpca_L2.
C11_L1AnomalyUpdate ==
    (IsSignalCall /\ pc = "L1" /\ iteration >= 1)
        => \A i \in 1..NRows(A) : \A j \in 1..NCols(A) :
              A[i][j] = IF Omega[i][j]
                        THEN Shrink(D.val[i][j] - X[i][j], call.self.lam)
                        ELSE D.val[i][j] - X[i][j]

\* C12: both Noisy solvers enter their first sweep with L and Q all ones,
\* A and Y all zeros and X equal to the warm-started D.
C12_CommonInit ==
    (IsSignalCall /\ pc \in {"L1", "L2"} /\ iteration = 0)
        => /\ L = Fill(NRows(D.val), call.self.rank, 1)
           /\ Q = Fill(NCols(D.val), call.self.rank, 1)
           /\ A = Fill(NRows(D.val), NCols(D.val), 0)
           /\ Y = NoisyY(Fill(NRows(D.val), NCols(D.val), 0))
           /\ X = D.val

\* A sweep of the loop of decompose_rpca.
PCPSweepStep == pc = "pcp" /\ iteration' = iteration + 1

\* C13: in every PCP sweep svd_thresholding is given 1/mu and the
\* soft-thresholding of the A-update lam/mu.  Both are stated without
\* division: mu * t = 1, mu * t = lam, and on an observed entry
\* mu * A = shrink(mu * (D - M) + Y, lam), which is mu * shrink(D - M + Y/mu, lam/mu).
C13_Thresholds ==
    [][PCPSweepStep
          => /\ mu * SvdThreshold(mu) = 1
             /\ mu * SoftThreshold(call.self.lam, mu) = call.self.lam
             /\ \A i \in 1..NRows(A') : \A j \in 1..NCols(A') :
                   Omega[i][j]
                       => mu * A'[i][j]
                            = Shrink(mu * (D.val[i][j] - M'[i][j]) + Y[i][j], call.self.lam)]_vars

\* A sweep of the loop of decompose_rpca_L2.
L2SweepStep == pc = "L2" /\ iteration' = iteration + 1

Zeros(W) == Fill(NRows(W), NCols(W), 0)

\* PCP: M comes from the A and Y of the previous sweep, A from the new M,
\* Y from the new M and A.
C14_PCPOrder ==
    PCPSweepStep
        => /\ M' = MatMul(L', Q')
           /\ (FroSq(MatAdd(MatSub(D.val, A), DivBy(Y, mu))) <= SvdThreshold(mu) * SvdThreshold(mu)
                  => M' = Zeros(M'))
           /\ A' = Where(Omega,
                         SoftThresholding(MatAdd(MatSub(D.val, M'), DivBy(Y, mu)),
                                          SoftThreshold(call.self.lam, mu)),
                         MatSub(D.val, M'))
           /\ Y' = MatAdd(Y, Scale(mu, MatSub(MatSub(D.val, M'), A')))

\* Noisy L2: A from the new X, L from the previous Q, Q from the new L, Y
\* from the new X, L, Q scaled by the mu the sweep started with, mu last.
C14_L2Order ==
    L2SweepStep
        => /\ A' = Where(Omega, SoftThresholding(MatSub(D.val, X'), call.self.lam),
                         MatSub(D.val, X'))
           /\ (Q = Zeros(Q) => L' = Zeros(L'))
           /\ (L' = Zeros(L') => Q' = Zeros(Q'))
           /\ Y' = [base |-> Y.base,
                    last |-> [mu |-> mu, d |-> MatSub(X', MatMul(L', Transpose(Q')))]]
           /\ mu' = Min2(mu + 1, MuBarSteps)

\* C14: within one sweep the updates run in Gauss-Seidel order, each reading
\* the newest value of what the sweep has already updated: PCP updates M,
\* A, Y; Noisy L2 updates X, A, L, Q, Y and only then mu.
C14_GaussSeidel == [][C14_PCPOrder /\ C14_L2Order]_vars

C14_Witness ==
    /\ IsSignalCall /\ call.self.norm = "L2" /\ pc = "returned" /\ iteration >= 2
    /\ AnyTrue(NotMask(Omega))
    /\ L = Zeros(L) /\ Q = Zeros(Q) /\ X # Zeros(X) /\ A # Zeros(A)
    /\ Y.last.mu + 1 = mu

\* Sum of the squares of the entries of W where the mask holds.
MaskedSq(om, W) ==
    SumTo([i \in 1..NRows(W) |->
              SumTo([j \in 1..NCols(W) |-> IF om[i][j] THEN W[i][j] * W[i][j] ELSE 0],
                    NCols(W))], NRows(W))

\* C15: in decompose_rpca the multiplier Y is zero on every unobserved entry
\* after any number of sweeps; the residual D - M - A is zero there, so the
\* squared norm in the convergence error is the sum over the observed entries.
C15_MultiplierZeroUnobserved ==
    (IsPCPCall /\ pc \in {"pcp", "returned"})
        => /\ \A i \in 1..NRows(Y) : \A j \in 1..NCols(Y) :
                 ~Omega[i][j]
                     => /\ Y[i][j] = 0
                        /\ (iteration >= 1 => D.val[i][j] - M[i][j] - A[i][j] = 0)
           /\ (iteration >= 1
                 => tol.num2 = MaskedSq(Omega, MatSub(MatSub(D.val, M), A)))

C15_Witness ==
    /\ IsPCPCall /\ pc = "returned" /\ iteration >= 2
    /\ \E j \in 1..NCols(A) : ~Omega[1][j] /\ A[1][j] # 0 /\ Y[1][j] = 0
    /\ \E j \in 1..NCols(A) : Omega[1][j] /\ Y[1][j] # 0
    /\ tol.num2 > 0

IsBasisCall == call.fn = "decompose_on_basis"

SingleRowOrColumn == NRows(call.D.val) = 1 \/ NCols(call.D.val) = 1

\* C16: decompose_on_basis never tests a tolerance.  With at least two rows
\* and two columns it raises nothing and returns after exactly max_iterations sweeps, the cost
\* check having run; with one row or one column it returns the D it was
\* given and an all-zero A at once, no sweep and no cost check having run.
C16_BasisLoop ==
    IsBasisCall
        => /\ ~broke /\ tol = None
           /\ iteration <= call.self.max_iterations
           /\ pc # "raised"
           /\ (SingleRowOrColumn => pc \in {"call", "returned"})
           /\ (pc = "returned" /\ SingleRowOrColumn
                 => /\ iteration = 0 /\ M = None /\ Y = None /\ ~warned
                    /\ ret = <<Ndarray("D", call.D),
                               Ndarray("A", Zeros(call.D.val))>>)
           /\ (pc = "returned" /\ ~SingleRowOrColumn
                 => /\ iteration = call.self.max_iterations
                    /\ ret = <<Ndarray("M", M), Ndarray("A", A)>>
                    /\ (warned <=> (call.self.verbose
                                      /\ FinalCostObserved4 - InitialCost4 >= 100)))

===========================================================================
